---- MODULE Spec2Model ----
(***************************************************************************)
(* DailyTracker: the activity store (server/storage.ts), the HTTP routes   *)
(* over it (server/routes.ts), the client's time helpers                   *)
(* (client/src/lib/utils.ts), and the form and the list of the client      *)
(* (client/src/components) where they build the requests they send.        *)
(*                                                                         *)
(* Text values whose characters matter (dates "YYYY-MM-DD", times "HH:MM", *)
(* rendered durations) are sequences of one-character strings, so that     *)
(* formatting, parsing and the database's text comparison are computed.    *)
(* Tag names and descriptions are only ever compared for equality and are  *)
(* plain strings.                                                          *)
(***************************************************************************)
EXTENDS Integers, Sequences, FiniteSets, TLC

VARIABLES
    activities,      \* rows of the "activities" table
    activitySerial,  \* last value handed out by activities.id (serial)
    projectTags,     \* rows of the "project_tags" table
    tagSerial,       \* last value handed out by project_tags.id (serial)
    now,             \* the server clock: hours since 2024-01-01T00:00Z
    tz,              \* the server's offset from UTC, in hours
    resp,            \* the response of the last HTTP request
    call,            \* the last call of a client helper: function, arguments, result
    tasks            \* the storage calls in progress when requests and the seeding
                     \* of the default tags interleave: each one's position and locals

vars == <<activities, activitySerial, projectTags, tagSerial, now, tz, resp, call, tasks>>

serverVars == <<activities, activitySerial, projectTags, tagSerial, now, tz, resp, tasks>>

----------------------------------------------------------------------------
(* Bounds of the model *)

\* activities.id is a serial: requests that create are cut off after this many
MaxActivityId == 2

\* largest week total the weekly-progress calls are applied to
MaxWeekMinutes == 1500

\* largest minute totals the day-over-day comparison calls are applied to
MaxDayMinutes == 40

----------------------------------------------------------------------------
(* Text *)

DigitChars == <<"0", "1", "2", "3", "4", "5", "6", "7", "8", "9">>

\* code unit of the characters that occur in dates and times
CharCode(c) ==
    CASE c = "-" -> 45
      [] c = "0" -> 48 [] c = "1" -> 49 [] c = "2" -> 50 [] c = "3" -> 51
      [] c = "4" -> 52 [] c = "5" -> 53 [] c = "6" -> 54 [] c = "7" -> 55
      [] c = "8" -> 56 [] c = "9" -> 57
      [] c = ":" -> 58

\* s < t as the database compares text (code-unit order, a prefix first)
RECURSIVE TextLess(_, _)
TextLess(s, t) ==
    IF t = <<>> THEN FALSE
    ELSE IF s = <<>> THEN TRUE
    ELSE IF Head(s) = Head(t) THEN TextLess(Tail(s), Tail(t))
    ELSE CharCode(Head(s)) < CharCode(Head(t))

TextLessEq(s, t) == s = t \/ TextLess(s, t)

\* String(n) of a non-negative integer
RECURSIVE NatToString(_)
NatToString(n) ==
    IF n < 10 THEN <<DigitChars[n + 1]>>
    ELSE NatToString(n \div 10) \o <<DigitChars[(n % 10) + 1]>>

\* String(n) of an integer, as a template literal renders it
NumberToString(n) == IF n < 0 THEN <<"-">> \o NatToString(-n) ELSE NatToString(n)

\* s.padStart(width, "0")
RECURSIVE PadStart(_, _)
PadStart(s, width) == IF Len(s) >= width THEN s ELSE PadStart(<<"0">> \o s, width)

\* s.split(sep): the pieces of s between occurrences of the character sep
RECURSIVE SplitFrom(_, _, _)
SplitFrom(s, sep, piece) ==
    IF s = <<>> THEN <<piece>>
    ELSE IF Head(s) = sep THEN <<piece>> \o SplitFrom(Tail(s), sep, <<>>)
    ELSE SplitFrom(Tail(s), sep, Append(piece, Head(s)))

Split(s, sep) == SplitFrom(s, sep, <<>>)

\* Number(s) of a string of decimal digits ("" is 0)
RECURSIVE DigitsToNumber(_, _)
DigitsToNumber(s, acc) ==
    IF s = <<>> THEN acc
    ELSE DigitsToNumber(Tail(s), 10 * acc + (CharCode(Head(s)) - 48))

Number(s) == DigitsToNumber(s, 0)

----------------------------------------------------------------------------
(* Numbers *)

\* a % b of JavaScript: the remainder takes the sign of the dividend (b > 0)
JsRem(a, b) == IF a >= 0 THEN a % b ELSE -((-a) % b)

\* Math.floor(a / b), b > 0
FloorDiv(a, b) == a \div b

\* The odd n, -200 < n < 1000, for which the double (n / 200) * 100 comes out
\* just below n / 2 (29 / 200 * 100 is 14.499999999999998); for every other
\* odd n in that range it is n / 2 or just above.  The double (a / b) * 100
\* depends on a and b only through the quotient a / b.
HalvesBelow ==
    {-111, -109, -55, -7, 29, 57, 113, 115, 201, 203, 205, 207, 251, 253, 255,
     427, 431, 435, 439, 477, 481, 485, 489, 803, 829, 837, 845, 853, 879, 887,
     895, 903, 929, 937, 945, 953, 979, 987, 995}

\* Math.round((a / b) * 100) in double arithmetic, b > 0: the nearest integer;
\* when a / b * 100 is n / 2 for an odd n, Math.round rounds the half up unless
\* the double has come out below it
RoundPercent(a, b) ==
    LET twice == 200 * a
    IN  IF twice % b = 0 /\ (twice \div b) \in HalvesBelow
        THEN ((twice \div b) - 1) \div 2
        ELSE (twice + b) \div (2 * b)

Min(a, b) == IF a <= b THEN a ELSE b

----------------------------------------------------------------------------
(* Dates: a Date is an instant, here in hours since 2024-01-01T00:00Z *)

HoursPerDay == 24

DaysInMonth == <<31, 29, 31, 30, 31, 30, 31, 31, 30, 31, 30, 31>>

\* month and day of month of the day-th day of 2024 (day 0 is January 1)
RECURSIVE MonthDayFrom(_, _)
MonthDayFrom(day, month) ==
    IF day < DaysInMonth[month] THEN <<month, day + 1>>
    ELSE MonthDayFrom(day - DaysInMonth[month], month + 1)

\* date.toISOString().split('T')[0]: the UTC calendar date of the instant
ToISODate(instant) ==
    LET md == MonthDayFrom(instant \div HoursPerDay, 1)
    IN  NatToString(2024) \o <<"-">> \o PadStart(NatToString(md[1]), 2)
            \o <<"-">> \o PadStart(NatToString(md[2]), 2)

\* date.getDay(): the day of the week in the local time zone, 0 is Sunday
\* (2024-01-01 is a Monday)
GetDay(instant) == (((instant + tz) \div HoursPerDay) + 1) % 7

\* d.setDate(d.getDate() + days): the same local time, days later
AddDays(instant, days) == instant + days * HoursPerDay

----------------------------------------------------------------------------
(* client/src/lib/utils.ts *)

\* formatMinutes(minutes): `${mins}m` when hours === 0, else `${hours}h ${mins}m`
formatMinutes(minutes) ==
    LET hours == FloorDiv(minutes, 60)
        mins  == JsRem(minutes, 60)
    IN  IF hours = 0 THEN NumberToString(mins) \o <<"m">>
        ELSE NumberToString(hours) \o <<"h", " ">> \o NumberToString(mins) \o <<"m">>

\* timeDifferenceInMinutes adding a day also when the difference is zero
timeDifferenceWrappingAtZero(startTime, endTime) ==
    LET start        == Split(startTime, ":")
        end          == Split(endTime, ":")
        totalMinutes == (Number(end[1]) * 60 + Number(end[2]))
                            - (Number(start[1]) * 60 + Number(start[2]))
    IN  IF totalMinutes <= 0 THEN totalMinutes + 24 * 60 ELSE totalMinutes

\* timeDifferenceInMinutes(startTime, endTime)
timeDifferenceInMinutes(startTime, endTime) ==
    LET start        == Split(startTime, ":")
        end          == Split(endTime, ":")
        startHours   == Number(start[1])
        startMinutes == Number(start[2])
        endHours     == Number(end[1])
        endMinutes   == Number(end[2])
        totalMinutes == (endHours * 60 + endMinutes) - (startHours * 60 + startMinutes)
    IN  IF totalMinutes < 0 THEN totalMinutes + 24 * 60 ELSE totalMinutes

\* calculateEndTime without the % 24 on the hours: an end past midnight
\* comes out as an hour of 24 or more
calculateEndTimeWithoutDayWrap(startTime, durationMinutes) ==
    LET parts        == Split(startTime, ":")
        totalMinutes == Number(parts[1]) * 60 + Number(parts[2]) + durationMinutes
    IN  PadStart(NumberToString(FloorDiv(totalMinutes, 60)), 2) \o <<":">>
            \o PadStart(NumberToString(JsRem(totalMinutes, 60)), 2)

\* calculateEndTime(startTime, durationMinutes)
calculateEndTime(startTime, durationMinutes) ==
    LET parts        == Split(startTime, ":")
        hours        == Number(parts[1])
        minutes      == Number(parts[2])
        totalMinutes == hours * 60 + minutes + durationMinutes
        newHours     == JsRem(FloorDiv(totalMinutes, 60), 24)
        newMinutes   == JsRem(totalMinutes, 60)
    IN  PadStart(NumberToString(newHours), 2) \o <<":">>
            \o PadStart(NumberToString(newMinutes), 2)

\* today.setHours(0, 0, 0, 0): midnight, in the local time zone, of the local
\* day the instant falls in
SetHoursZero(instant) ==
    ((instant + tz) \div HoursPerDay) * HoursPerDay - tz

\* new Date(today.getFullYear(), today.getMonth(), 1): local midnight of the
\* first day of the local month of the instant
FirstOfMonth(instant) ==
    LET localDay == (instant + tz) \div HoursPerDay
        monthDay == MonthDayFrom(localDay, 1)
    IN  (localDay - (monthDay[2] - 1)) * HoursPerDay - tz

\* { startDate, endDate }
DateRange(start, end) == [startDate |-> ToISODate(start), endDate |-> ToISODate(end)]

\* getDateRange that takes its day from the call before it, when there is one
getDateRangeOfEarlierDay(filter) ==
    LET clock == IF call.fn = "getDateRange" THEN call.at ELSE now
        today == SetHoursZero(clock)
    IN  IF filter = "today" THEN DateRange(today, today)
        ELSE IF filter = "yesterday"
        THEN DateRange(AddDays(today, -1), AddDays(today, -1))
        ELSE IF filter = "thisWeek"
        THEN DateRange(AddDays(today, -GetDay(today)), today)
        ELSE IF filter = "lastWeek"
        THEN DateRange(AddDays(AddDays(today, -GetDay(today) - 1), -6),
                       AddDays(today, -GetDay(today) - 1))
        ELSE IF filter = "thisMonth" THEN DateRange(FirstOfMonth(today), today)
        ELSE DateRange(AddDays(today, -30), today)

\* getDateRange whose last week ends on the day this week starts
getDateRangeOverlappingWeeks(filter) ==
    LET today       == SetHoursZero(now)
        startOfWeek == AddDays(today, -GetDay(today))
    IN  IF filter = "today" THEN DateRange(today, today)
        ELSE IF filter = "yesterday"
        THEN DateRange(AddDays(today, -1), AddDays(today, -1))
        ELSE IF filter = "thisWeek" THEN DateRange(startOfWeek, today)
        ELSE IF filter = "lastWeek"
        THEN DateRange(AddDays(startOfWeek, -6), startOfWeek)
        ELSE IF filter = "thisMonth" THEN DateRange(FirstOfMonth(today), today)
        ELSE DateRange(AddDays(today, -30), today)

\* getDateRange(filter), at the clock's instant now and in the local zone tz
getDateRange(filter) ==
    LET today == SetHoursZero(now)
    IN  IF filter = "today" THEN DateRange(today, today)
        ELSE IF filter = "yesterday"
        THEN LET yesterday == AddDays(today, -1)
             IN  DateRange(yesterday, yesterday)
        ELSE IF filter = "thisWeek"
        THEN LET dayOfWeek   == GetDay(today)
                 startOfWeek == AddDays(today, -dayOfWeek)
             IN  DateRange(startOfWeek, today)
        ELSE IF filter = "lastWeek"
        THEN LET dayOfWeek       == GetDay(today)
                 endOfLastWeek   == AddDays(today, -dayOfWeek - 1)
                 startOfLastWeek == AddDays(endOfLastWeek, -6)
             IN  DateRange(startOfLastWeek, endOfLastWeek)
        ELSE IF filter = "thisMonth"
        THEN DateRange(FirstOfMonth(today), today)
        ELSE LET thirtyDaysAgo == AddDays(today, -30)
             IN  DateRange(thirtyDaysAgo, today)

----------------------------------------------------------------------------
(* server/storage.ts: DatabaseStorage over the two tables *)

\* the orders a finite set of rows can be listed in, as sequences
RECURSIVE RowOrders(_)
RowOrders(S) ==
    IF S = {} THEN {<<>>}
    ELSE UNION {{<<x>> \o p : p \in RowOrders(S \ {x})} : x \in S}

\* orderBy(asc(activities.startTime))
ByStartTimeAsc(a, b) == TextLess(a.startTime, b.startTime)

\* orderBy(desc(activities.date), asc(activities.startTime))
ByDateDescStartTimeAsc(a, b) ==
    \/ TextLess(b.date, a.date)
    \/ a.date = b.date /\ TextLess(a.startTime, b.startTime)

\* The results a SELECT ... ORDER BY may return for the rows S: every order of
\* the rows in which no row comes before one that sorts ahead of it (rows with
\* equal sort keys come in an order the database chooses).
OrderedByStartTime(S) ==
    {p \in RowOrders(S) :
        \A i, j \in 1..Len(p) : i < j => ~ByStartTimeAsc(p[j], p[i])}

OrderedByDateThenStartTime(S) ==
    {p \in RowOrders(S) :
        \A i, j \in 1..Len(p) : i < j => ~ByDateDescStartTimeAsc(p[j], p[i])}

getProjectTagByName(tags, name) == {t \in tags : t.name = name}

\* createProjectTag without the look-up of the name: it always inserts
createProjectTagUnchecked(st, name) ==
    [tags   |-> st.tags \cup {[id |-> st.serial + 1, name |-> name]},
     serial |-> st.serial + 1]

\* createProjectTag on the catalog st = [tags, serial]: an existing name is
\* returned as it is, a new one is inserted under the next serial id
createProjectTag(st, name) ==
    IF getProjectTagByName(st.tags, name) # {} THEN st
    ELSE [tags   |-> st.tags \cup {[id |-> st.serial + 1, name |-> name]},
          serial |-> st.serial + 1]

\* a loop that is left after the first tag name
createFirstProjectTag(st, tagNames) ==
    IF tagNames = <<>> THEN st ELSE createProjectTag(st, Head(tagNames))

\* for (const tagName of tagNames) await this.createProjectTag({ name: tagName })
RECURSIVE createProjectTags(_, _)
createProjectTags(st, tagNames) ==
    IF tagNames = <<>> THEN st
    ELSE createProjectTags(createProjectTag(st, Head(tagNames)), Tail(tagNames))

getActivityById(id) == {a \in activities : a.id = id}

\* getActivitiesByDate without its orderBy: the rows in any order
getActivitiesByDateUnordered(date) == RowOrders({a \in activities : a.date = date})

getActivitiesByDate(date) ==
    OrderedByStartTime({a \in activities : a.date = date})

\* getActivitiesByDateRange with gt in place of gte: the start date left out
getActivitiesAfterStartDate(startDate, endDate) ==
    OrderedByDateThenStartTime(
        {a \in activities : TextLess(startDate, a.date) /\ TextLessEq(a.date, endDate)})

\* getActivitiesByDateRange with lt in place of lte: the end date left out
getActivitiesBeforeEndDate(startDate, endDate) ==
    OrderedByDateThenStartTime(
        {a \in activities : TextLessEq(startDate, a.date) /\ TextLess(a.date, endDate)})

getActivitiesByDateRange(startDate, endDate) ==
    OrderedByDateThenStartTime(
        {a \in activities : TextLessEq(startDate, a.date) /\ TextLessEq(a.date, endDate)})

getAllActivities == OrderedByDateThenStartTime(activities)

\* activity.projectTags.includes(tagName)
Includes(tags, tagName) == \E i \in 1..Len(tags) : tags[i] = tagName

\* getActivitiesByProjectTag looking at the first tag of an activity only
getActivitiesByFirstProjectTag(tagName) ==
    {LET First(activity) == activity.projectTags # <<>> /\ activity.projectTags[1] = tagName
     IN  SelectSeq(allActivities, First) : allActivities \in getAllActivities}

\* getActivitiesByProjectTag(tagName): getAllActivities(), then filter
getActivitiesByProjectTag(tagName) ==
    {LET Tagged(activity) == Includes(activity.projectTags, tagName)
     IN  SelectSeq(allActivities, Tagged) : allActivities \in getAllActivities}

\* the row createActivity inserts: the validated body, a fresh id, createdAt
NewActivityRow(body, id) ==
    [id              |-> id,
     description     |-> body.description,
     date            |-> body.date,
     startTime       |-> body.startTime,
     endTime         |-> IF "endTime" \in DOMAIN body THEN body.endTime ELSE <<>>,
     durationMinutes |-> body.durationMinutes,
     projectTags     |-> body.projectTags,
     createdAt       |-> now]

\* db.update(activities).set(activityUpdate): the keys given replace the row's
UpdatedRow(row, activityUpdate) ==
    [k \in DOMAIN row |->
        IF k \in DOMAIN activityUpdate THEN activityUpdate[k] ELSE row[k]]

----------------------------------------------------------------------------
(* server/routes.ts: the computations of GET /api/summary *)

\* a reducer that returns the duration instead of adding it to the sum
RECURSIVE LastDurationFrom(_, _)
LastDurationFrom(sum, rows) ==
    IF rows = <<>> THEN sum
    ELSE LastDurationFrom(Head(rows).durationMinutes, Tail(rows))

\* activities.reduce((sum, activity) => sum + activity.durationMinutes, 0)
RECURSIVE SumDurationsFrom(_, _)
SumDurationsFrom(sum, rows) ==
    IF rows = <<>> THEN sum
    ELSE SumDurationsFrom(sum + Head(rows).durationMinutes, Tail(rows))

TotalMinutes(rows) == SumDurationsFrom(0, rows)

weekTargetMinutes == 1440

\* WeekProgress without the Math.min that caps it
WeekProgressUncapped(weekMinutes) == RoundPercent(weekMinutes, weekTargetMinutes)

\* Math.min(Math.round((weekMinutes / weekTargetMinutes) * 100), 100)
WeekProgress(weekMinutes) == Min(RoundPercent(weekMinutes, weekTargetMinutes), 100)

\* A Map<string, number> is the sequence of its entries <<key, value>> in
\* insertion order, which is the order its entries() are iterated in.
MapHas(map, key) == \E i \in 1..Len(map) : map[i][1] = key

MapGet(map, key) == map[CHOOSE i \in 1..Len(map) : map[i][1] = key][2]

\* map.set(key, value): an existing key keeps its place, a new one goes last
MapSet(map, key, value) ==
    IF MapHas(map, key)
    THEN [i \in 1..Len(map) |-> IF map[i][1] = key THEN <<key, value>> ELSE map[i]]
    ELSE Append(map, <<key, value>>)

\* for (const tag of activity.projectTags):
\*   projectMinutes.set(tag, (projectMinutes.get(tag) || 0) + activity.durationMinutes)
RECURSIVE AddTagMinutes(_, _, _)
AddTagMinutes(map, tags, durationMinutes) ==
    IF tags = <<>> THEN map
    ELSE LET tag     == Head(tags)
             minutes == IF MapHas(map, tag) THEN MapGet(map, tag) ELSE 0
         IN  AddTagMinutes(MapSet(map, tag, minutes + durationMinutes),
                           Tail(tags), durationMinutes)

\* for (const activity of weekActivities): the loop over its tags
RECURSIVE ProjectMinutesFrom(_, _)
ProjectMinutesFrom(map, rows) ==
    IF rows = <<>> THEN map
    ELSE ProjectMinutesFrom(
             AddTagMinutes(map, Head(rows).projectTags, Head(rows).durationMinutes),
             Tail(rows))

ProjectMinutes(weekActivities) == ProjectMinutesFrom(<<>>, weekActivities)

\* if (minutes > maxMinutes) { maxMinutes = minutes; maxProject = project; }
MaxStep(max, entry) ==
    IF entry[2] > max.minutes THEN [name |-> entry[1], minutes |-> entry[2]] ELSE max

\* for (const [project, minutes] of projectMinutes.entries())
RECURSIVE MaxProjectFrom(_, _)
MaxProjectFrom(max, entries) ==
    IF entries = <<>> THEN max
    ELSE MaxProjectFrom(MaxStep(max, Head(entries)), Tail(entries))

\* TopPercentage with the fraction dropped instead of rounded
TopPercentageTruncated(maxMinutes, weekMinutes) ==
    IF weekMinutes > 0 THEN (100 * maxMinutes) \div weekMinutes ELSE 0

\* weekMinutes > 0 ? Math.round((maxMinutes / weekMinutes) * 100) : 0
TopPercentage(maxMinutes, weekMinutes) ==
    IF weekMinutes > 0 THEN RoundPercent(maxMinutes, weekMinutes) ELSE 0

\* TopProject without the branch for a week in which no tag occurs
TopProjectWithoutNone(projectMinutes, weekMinutes) ==
    LET max == MaxProjectFrom([name |-> "", minutes |-> 0], projectMinutes)
    IN  [name       |-> max.name,
         minutes    |-> max.minutes,
         percentage |-> TopPercentage(max.minutes, weekMinutes)]

\* topProject: { name, minutes, percentage }
TopProject(projectMinutes, weekMinutes) ==
    IF Len(projectMinutes) > 0
    THEN LET max == MaxProjectFrom([name |-> "", minutes |-> 0], projectMinutes)
         IN  [name       |-> max.name,
              minutes    |-> max.minutes,
              percentage |-> TopPercentage(max.minutes, weekMinutes)]
    ELSE [name |-> "None", minutes |-> 0, percentage |-> 0]

\* formatTime leaving the hours out when there are none
formatTimeWithoutZeroHours(minutes) == formatMinutes(minutes)

\* const formatTime = (minutes) => `${hours}h ${mins}m`
formatTime(minutes) ==
    LET hours == FloorDiv(minutes, 60)
        mins  == JsRem(minutes, 60)
    IN  NumberToString(hours) \o <<"h", " ">> \o NumberToString(mins) \o <<"m">>

\* ComparedToYesterday with the fraction dropped instead of rounded
ComparedToYesterdayFloored(todayMinutes, yesterdayMinutes) ==
    IF yesterdayMinutes > 0
    THEN (100 * (todayMinutes - yesterdayMinutes)) \div yesterdayMinutes
    ELSE 0

\* yesterdayMinutes > 0
\*   ? Math.round((todayMinutes - yesterdayMinutes) / yesterdayMinutes * 100) : 0
ComparedToYesterday(todayMinutes, yesterdayMinutes) ==
    IF yesterdayMinutes > 0
    THEN RoundPercent(todayMinutes - yesterdayMinutes, yesterdayMinutes)
    ELSE 0

\* the summary object sent, and beside it the handler's local values
Summary(today, yesterday, startOfWeekStr, endOfWeekStr, todayActivities, yesterdayActivities, weekActivities) ==
    LET todayMinutes     == TotalMinutes(todayActivities)
        yesterdayMinutes == TotalMinutes(yesterdayActivities)
        weekMinutes      == TotalMinutes(weekActivities)
        projectMinutes   == ProjectMinutes(weekActivities)
        topProject       == TopProject(projectMinutes, weekMinutes)
    IN  [route  |-> "GET /api/summary",
         status |-> 200,
         body   |->
            [today |->
                [totalTime           |-> formatTime(todayMinutes),
                 totalMinutes        |-> todayMinutes,
                 comparedToYesterday |->
                     ComparedToYesterday(todayMinutes, yesterdayMinutes)],
             week |->
                [totalTime    |-> formatTime(weekMinutes),
                 totalMinutes |-> weekMinutes,
                 target       |-> formatTime(weekTargetMinutes),
                 progress     |-> WeekProgress(weekMinutes)],
             topProject |->
                [name       |-> topProject.name,
                 time       |-> formatTime(topProject.minutes),
                 percentage |-> topProject.percentage]],
         locals |->
            [at                  |-> now,
             today               |-> today,
             yesterday           |-> yesterday,
             startOfWeekStr      |-> startOfWeekStr,
             endOfWeekStr        |-> endOfWeekStr,
             todayActivities     |-> todayActivities,
             yesterdayActivities |-> yesterdayActivities,
             weekActivities      |-> weekActivities,
             yesterdayMinutes    |-> yesterdayMinutes,
             projectMinutes      |-> projectMinutes,
             topProject          |-> topProject]]

----------------------------------------------------------------------------
(* server/routes.ts: the request handlers *)

DigitSet == {DigitChars[i] : i \in 1..Len(DigitChars)}

\* the leading decimal digits of s
RECURSIVE LeadingDigits(_)
LeadingDigits(s) ==
    IF s = <<>> \/ Head(s) \notin DigitSet THEN <<>>
    ELSE <<Head(s)>> \o LeadingDigits(Tail(s))

\* parseInt(s) of an unsigned string: <<n>>, or <<>> for NaN
ParseInt(s) == IF LeadingDigits(s) = <<>> THEN <<>> ELSE <<Number(LeadingDigits(s))>>

\* insertActivitySchema.parse(body) succeeds: every column that is notNull and
\* has no default is present (id and createdAt are omitted from the schema)
InsertActivityKeys ==
    {"description", "date", "startTime", "durationMinutes", "projectTags"}

insertActivitySchemaAccepts(body) == InsertActivityKeys \subseteq DOMAIN body

\* app.get('/api/summary')
GetSummary ==
    LET today          == ToISODate(now)
        yesterday      == ToISODate(now - HoursPerDay)
        dayOfWeek      == GetDay(now)
        startOfWeek    == AddDays(now, -dayOfWeek)
        endOfWeek      == AddDays(startOfWeek, 6)
        startOfWeekStr == ToISODate(startOfWeek)
        endOfWeekStr   == ToISODate(endOfWeek)
    IN  /\ \E todayActivities \in getActivitiesByDate(today),
              yesterdayActivities \in getActivitiesByDate(yesterday),
              weekActivities \in getActivitiesByDateRange(startOfWeekStr, endOfWeekStr) :
               resp' = Summary(today, yesterday, startOfWeekStr, endOfWeekStr,
                               todayActivities, yesterdayActivities, weekActivities)
        /\ UNCHANGED <<activities, activitySerial, projectTags, tagSerial, now, tz, call, tasks>>

\* a query parameter that is present and not the empty string (a tag name is
\* a plain string, a date a sequence of characters)
Given(query, key) ==
    key \in DOMAIN query /\ query[key] # (IF key = "projectTag" THEN "" ELSE <<>>)

\* the rows GET /api/activities answers with: by projectTag before by date,
\* by date before by startDate and endDate, and all of them otherwise
SelectActivities(query) ==
    IF Given(query, "projectTag") THEN getActivitiesByProjectTag(query.projectTag)
    ELSE IF Given(query, "date") THEN getActivitiesByDate(query.date)
    ELSE IF Given(query, "startDate") /\ Given(query, "endDate")
    THEN getActivitiesByDateRange(query.startDate, query.endDate)
    ELSE getAllActivities

\* GET /api/activities filtering the stored rows in place: those it does not
\* answer with are gone
GetActivitiesInPlace(queries) ==
    /\ \E query \in queries : \E rows \in SelectActivities(query) :
           /\ resp' = [route |-> "GET /api/activities", status |-> 200,
                       query |-> query, body |-> rows]
           /\ activities' = {rows[i] : i \in 1..Len(rows)}
    /\ UNCHANGED <<activitySerial, projectTags, tagSerial, now, tz, call, tasks>>

\* insertProjectTagSchema.parse(body) succeeds: name is present
insertProjectTagSchemaAccepts(body) == "name" \in DOMAIN body

\* app.post('/api/projects'): storage.createProjectTag(validatedData), or 400;
\* the tag answered is the existing one of that name, or the one inserted
PostProject(bodies) ==
    \E body \in bodies :
        /\ IF insertProjectTagSchemaAccepts(body)
           THEN LET catalog == createProjectTag(
                                   [tags |-> projectTags, serial |-> tagSerial],
                                   body.name)
                IN  /\ projectTags' = catalog.tags
                    /\ tagSerial' = catalog.serial
                    /\ \E project \in getProjectTagByName(catalog.tags, body.name) :
                           resp' = [route |-> "POST /api/projects", status |-> 201,
                                    body |-> project]
           ELSE /\ resp' = [route |-> "POST /api/projects", status |-> 400]
                /\ UNCHANGED <<projectTags, tagSerial>>
        /\ UNCHANGED <<activities, activitySerial, now, tz, call, tasks>>

\* app.get('/api/activities')
GetActivities(queries) ==
    /\ \E query \in queries : \E rows \in SelectActivities(query) :
           resp' = [route |-> "GET /api/activities", status |-> 200,
                    query |-> query, body |-> rows]
    /\ UNCHANGED <<activities, activitySerial, projectTags, tagSerial, now, tz, call, tasks>>

\* app.post('/api/activities'): storage.createActivity(validatedData), or 400
PostActivity(bodies) ==
    \E body \in bodies :
        /\ activitySerial < MaxActivityId
        /\ IF insertActivitySchemaAccepts(body)
           THEN LET catalog == createProjectTags(
                                   [tags |-> projectTags, serial |-> tagSerial],
                                   body.projectTags)
                    row     == NewActivityRow(body, activitySerial + 1)
                IN  /\ projectTags' = catalog.tags
                    /\ tagSerial' = catalog.serial
                    /\ activities' = activities \cup {row}
                    /\ activitySerial' = activitySerial + 1
                    /\ resp' = [route |-> "POST /api/activities", status |-> 201,
                                body |-> row]
           ELSE /\ resp' = [route |-> "POST /api/activities", status |-> 400]
                /\ UNCHANGED <<activities, activitySerial, projectTags, tagSerial>>
        /\ UNCHANGED <<now, tz, call, tasks>>

\* app.get('/api/activities/:id'): storage.getActivityById(id)
GetActivity(idParams) ==
    \E idParam \in idParams :
        LET id    == ParseInt(idParam)
            found == IF id = <<>> THEN {} ELSE getActivityById(id[1])
        IN  /\ IF id = <<>>
               THEN resp' = [route |-> "GET /api/activities/:id", status |-> 400,
                             params |-> [id |-> idParam]]
               ELSE IF found = {}
               THEN resp' = [route |-> "GET /api/activities/:id", status |-> 404,
                             params |-> [id |-> idParam]]
               ELSE \E row \in found :
                        resp' = [route |-> "GET /api/activities/:id", status |-> 200,
                                 params |-> [id |-> idParam], body |-> row]
            /\ UNCHANGED <<activities, activitySerial, projectTags, tagSerial, now, tz,
                           call, tasks>>

\* an update that creates the tags it names before it looks for the activity
PutActivityTagsFirst(idParams, updates) ==
    \E idParam \in idParams, activityUpdate \in updates :
        LET id      == ParseInt(idParam)
            found   == IF id = <<>> THEN {} ELSE getActivityById(id[1])
            catalog == IF "projectTags" \in DOMAIN activityUpdate
                       THEN createProjectTags(
                                [tags |-> projectTags, serial |-> tagSerial],
                                activityUpdate.projectTags)
                       ELSE [tags |-> projectTags, serial |-> tagSerial]
        IN  /\ IF id = <<>>
               THEN /\ resp' = [route |-> "PUT /api/activities/:id", status |-> 400,
                                params |-> [id |-> idParam]]
                    /\ UNCHANGED <<activities, projectTags, tagSerial>>
               ELSE /\ projectTags' = catalog.tags
                    /\ tagSerial' = catalog.serial
                    /\ IF found = {}
                       THEN /\ resp' = [route |-> "PUT /api/activities/:id",
                                        status |-> 404, params |-> [id |-> idParam]]
                            /\ UNCHANGED activities
                       ELSE IF DOMAIN activityUpdate = {}
                       THEN /\ resp' = [route |-> "PUT /api/activities/:id",
                                        status |-> 500, params |-> [id |-> idParam]]
                            /\ UNCHANGED activities
                       ELSE \E row \in found :
                            /\ activities' = (activities \ {row})
                                                 \cup {UpdatedRow(row, activityUpdate)}
                            /\ resp' = [route |-> "PUT /api/activities/:id",
                                        status |-> 200, params |-> [id |-> idParam],
                                        body |-> UpdatedRow(row, activityUpdate)]
            /\ UNCHANGED <<activitySerial, now, tz, call, tasks>>

\* app.put('/api/activities/:id'): storage.updateActivity(id, req.body)
PutActivity(idParams, updates) ==
    \E idParam \in idParams, activityUpdate \in updates :
        LET id      == ParseInt(idParam)
            found   == IF id = <<>> THEN {} ELSE getActivityById(id[1])
            catalog == IF "projectTags" \in DOMAIN activityUpdate
                       THEN createProjectTags(
                                [tags |-> projectTags, serial |-> tagSerial],
                                activityUpdate.projectTags)
                       ELSE [tags |-> projectTags, serial |-> tagSerial]
        IN  /\ IF id = <<>>
               THEN /\ resp' = [route |-> "PUT /api/activities/:id", status |-> 400,
                             params |-> [id |-> idParam]]
                    /\ UNCHANGED <<activities, projectTags, tagSerial>>
               ELSE IF found = {}
               THEN /\ resp' = [route |-> "PUT /api/activities/:id", status |-> 404,
                             params |-> [id |-> idParam]]
                    /\ UNCHANGED <<activities, projectTags, tagSerial>>
               ELSE IF DOMAIN activityUpdate = {}
               THEN \* .set({}) throws "No values to set": handleError answers 500
                    /\ resp' = [route |-> "PUT /api/activities/:id", status |-> 500,
                             params |-> [id |-> idParam]]
                    /\ UNCHANGED <<activities, projectTags, tagSerial>>
               ELSE \E row \in found :
                    /\ projectTags' = catalog.tags
                    /\ tagSerial' = catalog.serial
                    /\ activities' =
                           (activities \ {row}) \cup {UpdatedRow(row, activityUpdate)}
                    /\ resp' = [route |-> "PUT /api/activities/:id", status |-> 200,
                                params |-> [id |-> idParam],
                                body |-> UpdatedRow(row, activityUpdate)]
            /\ UNCHANGED <<activitySerial, now, tz, call, tasks>>

\* app.delete('/api/activities/:id'): storage.deleteActivity(id)
DeleteActivity(idParams) ==
    \E idParam \in idParams :
        LET id    == ParseInt(idParam)
            found == IF id = <<>> THEN {} ELSE getActivityById(id[1])
        IN  /\ IF id = <<>>
               THEN /\ resp' = [route |-> "DELETE /api/activities/:id", status |-> 400,
                             params |-> [id |-> idParam]]
                    /\ UNCHANGED activities
               ELSE IF found = {}
               THEN /\ resp' = [route |-> "DELETE /api/activities/:id", status |-> 404,
                             params |-> [id |-> idParam]]
                    /\ UNCHANGED activities
               ELSE /\ activities' = activities \ found
                    /\ resp' = [route |-> "DELETE /api/activities/:id", status |-> 204,
                             params |-> [id |-> idParam]]
            /\ UNCHANGED <<activitySerial, projectTags, tagSerial, now, tz, call, tasks>>

\* time passes on the server
Tick(instants) ==
    /\ \E t \in instants : t > now /\ now' = t
    /\ UNCHANGED <<activities, activitySerial, projectTags, tagSerial, tz, resp, call, tasks>>

----------------------------------------------------------------------------
(* The server *)

\* the names initializeDefaultTags creates when the storage module is loaded
defaultTags ==
    <<"Website Redesign", "Client Meeting", "Documentation", "Research", "Development">>

NoResponse == [route |-> "none", status |-> 0]

NoCall == [fn |-> "none", args |-> <<>>, result |-> <<>>]

\* the server once the default tags are in place, at one of the given
\* instants in one of the given time zones
InitServer(instants, zones) ==
    LET catalog == createProjectTags([tags |-> {}, serial |-> 0], defaultTags)
    IN  /\ activities = {}
        /\ activitySerial = 0
        /\ projectTags = catalog.tags
        /\ tagSerial = catalog.serial
        /\ now \in instants
        /\ tz \in zones
        /\ resp = NoResponse
        /\ tasks = <<>>

\* `${hh}:${mm}` with both numbers padded to two digits
FormatHHMM(hours, minutes) ==
    PadStart(NatToString(hours), 2) \o <<":">> \o PadStart(NatToString(minutes), 2)

\* the :id of a request: the ids handed out, one never handed out, and a
\* parameter that is no number
IdParams == {NatToString(i) : i \in 1..(MaxActivityId + 1)} \cup {<<"x">>}

\* Wednesday 2024-02-28, 12:00 UTC
Wednesday == (31 + 27) * HoursPerDay + 12

Today == ToISODate(Wednesday)

Yesterday == ToISODate(Wednesday - HoursPerDay)

InvalidBody ==
    [description |-> "no date", startTime |-> FormatHHMM(9, 0),
     durationMinutes |-> 15, projectTags |-> <<"Research">>]

----------------------------------------------------------------------------
(* Spec: the server on one day, with activities of the Monday of its week   *)
(* that differ in their tags and durations                                 *)

TagLists ==
    {<<>>, <<"Research">>, <<"Research", "Alpha">>, <<"Research", "Research">>}

Durations == {0, 15, 100}

Monday == ToISODate(Wednesday - 2 * HoursPerDay)

RankBodies ==
    {[description |-> "write", date |-> Monday, startTime |-> FormatHHMM(9, 0),
      durationMinutes |-> m, projectTags |-> t] : m \in Durations, t \in TagLists}
    \cup {InvalidBody}

RankUpdates ==
    {[durationMinutes |-> 15], [projectTags |-> <<"Research", "Alpha">>], <<>>}

Init == InitServer({Wednesday}, {0}) /\ call = NoCall

Next ==
    \/ PostActivity(RankBodies)
    \/ PutActivity(IdParams, RankUpdates)
    \/ DeleteActivity(IdParams)
    \/ GetSummary

Spec == Init /\ [][Next]_vars

----------------------------------------------------------------------------
(* SpecTotals: the server on one day, with activities of today, yesterday  *)
(* and earlier in the week, entered by duration or by start and stop       *)

TotalsBodies ==
    {[description |-> "write", date |-> d, startTime |-> FormatHHMM(9, 0),
      durationMinutes |-> m, projectTags |-> <<"Research">>] :
        d \in {Today, Yesterday}, m \in {15, 105}}
    \cup {[description |-> "call", date |-> Monday,
           startTime |-> FormatHHMM(8, 30), endTime |-> FormatHHMM(9, 15),
           durationMinutes |-> 45, projectTags |-> <<"Alpha">>],
          InvalidBody}

TotalsUpdates == {[date |-> Today], [durationMinutes |-> 600], <<>>}

NextTotals ==
    \/ PostActivity(TotalsBodies)
    \/ PutActivity(IdParams, TotalsUpdates)
    \/ DeleteActivity(IdParams)
    \/ GetSummary

SpecTotals == Init /\ [][NextTotals]_vars

----------------------------------------------------------------------------
(* SpecWeek: the server across two week ends, in three time zones, with    *)
(* activities dated around the bounds of the week                          *)

\* Saturday 2024-02-24 23:00 UTC (Sunday 01:00 at UTC+2), Wednesday noon, and
\* Sunday 2024-03-03 03:00 UTC (Saturday 22:00 at UTC-5)
WeekInstants == {Wednesday - 4 * HoursPerDay + 11, Wednesday, Wednesday + 4 * HoursPerDay - 9}

TimeZones == {-5, 0, 2}

\* Saturday 02-24, Sunday 02-25, Wednesday 02-28, Friday 03-01, Saturday 03-02,
\* Sunday 03-03
WeekDates == {ToISODate(Wednesday + d * HoursPerDay) : d \in {-4, -3, 0, 2, 3, 4}}

WeekBodies ==
    {[description |-> "write", date |-> d, startTime |-> FormatHHMM(9, 0),
      durationMinutes |-> 30, projectTags |-> <<"Research">>] : d \in WeekDates}
    \cup {InvalidBody}

WeekUpdates == {[date |-> Today], <<>>}

InitWeek == InitServer(WeekInstants, TimeZones) /\ call = NoCall

NextWeek ==
    \/ PostActivity(WeekBodies)
    \/ PutActivity(IdParams, WeekUpdates)
    \/ DeleteActivity(IdParams)
    \/ GetSummary
    \/ Tick(WeekInstants)

SpecWeek == InitWeek /\ [][NextWeek]_vars

----------------------------------------------------------------------------
(* SpecCalc: the helpers and the summary's formulas, each applied once to   *)
(* arguments drawn from bounded sets                                       *)

ClockHours == {0, 1, 9, 12, 23}

ClockMinutes == {0, 1, 30, 59}

ClockTimes == {FormatHHMM(h, m) : h \in ClockHours, m \in ClockMinutes}

\* how far apart the two week totals of a weekProgress call lie
WeekSteps == {0, 1, 45, 630}

PendingCalls ==
    {[fn |-> "timeDifferenceInMinutes", args |-> <<s, e>>, result |-> <<>>] :
        s \in ClockTimes, e \in ClockTimes}
    \cup {[fn |-> "weekProgress", args |-> <<x, x + d>>, result |-> <<>>] :
            x \in 0..MaxWeekMinutes, d \in WeekSteps}
    \cup {[fn |-> "comparedToYesterday", args |-> <<t, y>>, result |-> <<>>] :
            t \in 0..MaxDayMinutes, y \in 0..MaxDayMinutes}

Pending(fn) == call.fn = fn /\ call.result = <<>>

Returned(fn) == call.fn = fn /\ call.result # <<>>

CallTimeDifference ==
    /\ Pending("timeDifferenceInMinutes")
    /\ call' = [call EXCEPT
                   !.result = <<timeDifferenceInMinutes(call.args[1], call.args[2])>>]
    /\ UNCHANGED serverVars

\* the weekly progress of two week totals
CallWeekProgress ==
    /\ Pending("weekProgress")
    /\ call' = [call EXCEPT
                   !.result = <<WeekProgress(call.args[1]), WeekProgress(call.args[2])>>]
    /\ UNCHANGED serverVars

CallComparedToYesterday ==
    /\ Pending("comparedToYesterday")
    /\ call' = [call EXCEPT
                   !.result = <<ComparedToYesterday(call.args[1], call.args[2])>>]
    /\ UNCHANGED serverVars

InitCalc == InitServer({Wednesday}, {0}) /\ call \in PendingCalls

NextCalc ==
    \/ CallTimeDifference
    \/ CallWeekProgress
    \/ CallComparedToYesterday

SpecCalc == InitCalc /\ [][NextCalc]_vars

----------------------------------------------------------------------------
(* SpecEndTime: calculateEndTime applied once to a start time and a number *)
(* of minutes drawn from bounded sets                                      *)

\* the numbers of minutes added: none, a few, whole days, more than a day,
\* and negative ones
AddedMinutes == {-1441, -1440, -45, -1, 0, 1, 30, 45, 1439, 1440, 1501, 2880}

PendingEndTimeCalls ==
    {[fn |-> "calculateEndTime", args |-> <<s, d>>, result |-> <<>>] :
        s \in ClockTimes, d \in AddedMinutes}

CallCalculateEndTime ==
    /\ Pending("calculateEndTime")
    /\ call' = [call EXCEPT
                   !.result = <<calculateEndTime(call.args[1], call.args[2])>>]
    /\ UNCHANGED serverVars

InitEndTime == InitServer({Wednesday}, {0}) /\ call \in PendingEndTimeCalls

NextEndTime == CallCalculateEndTime

SpecEndTime == InitEndTime /\ [][NextEndTime]_vars

----------------------------------------------------------------------------
(* SpecRange: getDateRange called a few times, under each keyword, while   *)
(* time passes; the clock and the zone are those of the machine the client *)
(* runs on.  Each call keeps the calls that returned before it.            *)

\* the calls a call keeps from before it are cut off after this many
MaxEarlierCalls == 2

\* the keywords of the range selector, and one that is none of them
Filters == {"today", "yesterday", "thisWeek", "lastWeek", "thisMonth", "all"}

\* a returned call without the calls it keeps
CallMade(c) == [args |-> c.args, at |-> c.at, zone |-> c.zone, result |-> c.result]

\* the calls of getDateRange that returned up to and including c
CallsUpTo(c) == IF c.fn = "getDateRange" THEN c.earlier \cup {CallMade(c)} ELSE {}

CallGetDateRange(filters) ==
    \E filter \in filters :
        /\ Cardinality(CallsUpTo(call)) <= MaxEarlierCalls
        /\ call' = [fn      |-> "getDateRange",
                    args    |-> <<filter>>,
                    result  |-> <<getDateRange(filter)>>,
                    at      |-> now,
                    zone    |-> tz,
                    earlier |-> CallsUpTo(call)]
        /\ UNCHANGED serverVars

\* the instants of SpecWeek, and Wednesday 17:00 UTC, five hours into the
\* same day in every zone
RangeInstants == WeekInstants \cup {Wednesday + 5}

InitRange == InitServer(RangeInstants, TimeZones) /\ call = NoCall

NextRange ==
    \/ CallGetDateRange(Filters)
    \/ Tick(RangeInstants)

SpecRange == InitRange /\ [][NextRange]_vars

----------------------------------------------------------------------------
(* SpecFilter: the server on one day, with activities of three dates, two  *)
(* start times and two tag lists, listed by date, by range and by tag      *)

FilterDates == {Monday, Yesterday, Today}

\* date, start time and tags of the activities entered
FilterEntries ==
    {<<Monday, FormatHHMM(9, 0), <<"Research">> >>,
     <<Monday, FormatHHMM(10, 30), <<"research", "Alpha">> >>,
     <<Yesterday, FormatHHMM(9, 0), <<"Research">> >>,
     <<Today, FormatHHMM(9, 0), <<"Research">> >>,
     <<Today, FormatHHMM(10, 30), <<"Research">> >>,
     <<Today, FormatHHMM(9, 0), <<"research", "Alpha">> >>}

FilterBodies ==
    {[description |-> "write", date |-> e[1], startTime |-> e[2],
      durationMinutes |-> 30, projectTags |-> e[3]] : e \in FilterEntries}
    \cup {InvalidBody}

\* start and end dates of the ranges asked for: the three days, a day twice,
\* a range that holds the day between its bounds only, and one whose start is
\* after its end
FilterRanges ==
    {<<Monday, Today>>, <<Today, Today>>, <<Yesterday, Yesterday>>,
     <<Monday, Yesterday>>, <<Today, Monday>>}

\* req.query: one date, two dates as a range, a tag name, and the
\* combinations the handler tells apart
FilterQueries ==
    {[date |-> d] : d \in FilterDates}
    \cup {[startDate |-> r[1], endDate |-> r[2]] : r \in FilterRanges}
    \cup {[projectTag |-> g] : g \in {"Research", "Alpha", "Re"}}
    \cup {<<>>, [date |-> <<>>], [startDate |-> Today],
          [projectTag |-> "Research", date |-> Monday]}

NextFilter ==
    \/ PostActivity(FilterBodies)
    \/ DeleteActivity(IdParams)
    \/ GetActivities(FilterQueries)
    \/ GetSummary

SpecFilter == Init /\ [][NextFilter]_vars

----------------------------------------------------------------------------
(* SpecTags: the server with tags created by name and by the tag lists of  *)
(* activities entered and updated, one request after the other             *)

\* req.body of POST /api/projects: a default tag's name, the same in lower
\* case, a new name, and a body without a name
ProjectBodies == {[name |-> n] : n \in {"Research", "research", "Alpha"}} \cup {<<>>}

TagBodies ==
    {[description |-> "write", date |-> Today, startTime |-> FormatHHMM(9, 0),
      durationMinutes |-> 30, projectTags |-> g] :
        g \in {<<"Research">>, <<"Alpha", "Alpha">>, <<"Beta", "research">>}}
    \cup {InvalidBody}

TagUpdates == {[projectTags |-> <<"Alpha", "Gamma">>], [durationMinutes |-> 15], <<>>}

NextTags ==
    \/ PostProject(ProjectBodies)
    \/ PostActivity(TagBodies)
    \/ PutActivity(IdParams, TagUpdates)

SpecTags == Init /\ [][NextTags]_vars

----------------------------------------------------------------------------
(* Properties of the summary's top project *)

IsSummary == resp.route = "GET /api/summary"

Range(seq) == {seq[i] : i \in 1..Len(seq)}

\* the sum of durationMinutes over a set of rows
RECURSIVE SumOver(_)
SumOver(rows) ==
    IF rows = {} THEN 0
    ELSE LET row == CHOOSE r \in rows : TRUE
         IN  row.durationMinutes + SumOver(rows \ {row})

\* the tag names carried by some row
CarriedTags(rows) == UNION {Range(row.projectTags) : row \in rows}

\* the summed durationMinutes of the rows whose projectTags contain the tag
TagTotal(tag, rows) == SumOver({row \in rows : tag \in Range(row.projectTags)})

\* the ranker's own total of a tag
RankedTotal(tag) == MapGet(resp.locals.projectMinutes, tag)

\* p is an integer nearest to x / y * 100: no further than a half from it (y > 0)
IsNearestPercent(p, x, y) == (2 * p - 1) * y <= 200 * x /\ 200 * x <= (2 * p + 1) * y

\* C1: over a week set with non-negative durations, when some activity carries
\* a tag the top project is a carried tag and its minutes are that tag's
\* summed durationMinutes; "None" with 0 minutes and 0 percent is reported
\* exactly when no activity carries a tag.
C1_TopProjectIsCarriedTag ==
    IsSummary =>
        LET week    == Range(resp.locals.weekActivities)
            top     == resp.locals.topProject
            carried == CarriedTags(week)
        IN  (\A row \in week : row.durationMinutes >= 0) =>
                /\ carried # {} =>
                       /\ top.name \in carried
                       /\ top.minutes = TagTotal(top.name, week)
                /\ (top.name = "None" /\ top.minutes = 0 /\ top.percentage = 0)
                       <=> carried = {}

\* the position at which a tag is first seen when the week's activities are
\* iterated in order, and each one's projectTags in order
RECURSIVE Flatten(_)
Flatten(seqs) == IF seqs = <<>> THEN <<>> ELSE Head(seqs) \o Flatten(Tail(seqs))

TagsInOrder(weekActivities) ==
    Flatten([i \in 1..Len(weekActivities) |-> weekActivities[i].projectTags])

FirstSeenAt(tag, weekActivities) ==
    LET tags == TagsInOrder(weekActivities)
    IN  CHOOSE i \in 1..Len(tags) :
            tags[i] = tag /\ \A j \in 1..(i - 1) : tags[j] # tag

\* the tags whose ranked total is the maximum
TopTied ==
    LET carried == CarriedTags(Range(resp.locals.weekActivities))
    IN  {t \in carried : \A u \in carried : RankedTotal(u) <= RankedTotal(t)}

\* C2: when two or more tags share the maximum summed duration, the tag
\* selected is the one of them that was seen first in the iteration over the
\* week's activities and their projectTags.
C2_TieGoesToFirstSeen ==
    IsSummary /\ Cardinality(TopTied) >= 2 =>
        /\ resp.locals.topProject.name \in TopTied
        /\ \A t \in TopTied :
               FirstSeenAt(resp.locals.topProject.name, resp.locals.weekActivities)
                   <= FirstSeenAt(t, resp.locals.weekActivities)

\* C3: the ranker's total of every tag is the sum of durationMinutes of the
\* week's activities whose projectTags contain the tag.
C3_TagTotalIsSumOverCarriers ==
    IsSummary =>
        LET week == Range(resp.locals.weekActivities)
        IN  /\ {e[1] : e \in Range(resp.locals.projectMinutes)} = CarriedTags(week)
            /\ \A tag \in CarriedTags(week) : RankedTotal(tag) = TagTotal(tag, week)

\* C4: the top project's percentage is its minutes over the week's total
\* minutes, times 100, rounded to a nearest integer when the week's total is
\* positive, and 0 when the week's total is 0.
C4_TopPercentage ==
    IsSummary =>
        LET minutes     == resp.locals.topProject.minutes
            weekMinutes == resp.body.week.totalMinutes
            percentage  == resp.body.topProject.percentage
        IN  /\ weekMinutes = 0 => percentage = 0
            /\ weekMinutes > 0 => IsNearestPercent(percentage, minutes, weekMinutes)

\* a week of 115 minutes whose top project has 100 of them: 86.96 percent
C4_Witness ==
    /\ IsSummary
    /\ resp.body.week.totalMinutes = 115
    /\ resp.locals.topProject.minutes = 100
    /\ resp.body.topProject.percentage = 87

----------------------------------------------------------------------------
(* Properties of the summary's week set, totals and rendered times *)

\* the day of 2024 that a date "YYYY-MM-DD" names (day 0 is January 1)
RECURSIVE DaysBeforeMonth(_)
DaysBeforeMonth(month) ==
    IF month = 1 THEN 0 ELSE DaysBeforeMonth(month - 1) + DaysInMonth[month - 1]

DayNumber(date) ==
    LET parts == Split(date, "-")
    IN  DaysBeforeMonth(Number(parts[2])) + Number(parts[3]) - 1

UtcDay(instant) == instant \div 24

LocalDay(instant) == (instant + tz) \div 24

\* 0 is Sunday; 2024-01-01, day 0, is a Monday
DayOfWeek(day) == (day + 1) % 7

\* the Sunday of the server's local week, moved by the days the UTC date is
\* ahead of or behind the local date
WeekStartDay(instant) ==
    (LocalDay(instant) - DayOfWeek(LocalDay(instant)))
        + (UtcDay(instant) - LocalDay(instant))

IsHoursAndMinutes(text, minutes) ==
    \E h \in 0..minutes, m \in 0..59 :
        /\ h * 60 + m = minutes
        /\ text = NatToString(h) \o <<"h", " ">> \o NatToString(m) \o <<"m">>

\* text is `${m}m` when there are no hours, and `${h}h ${m}m` otherwise
IsHoursAndMinutesOrMinutes(text, minutes) ==
    \E h \in 0..minutes, m \in 0..59 :
        /\ h * 60 + m = minutes
        /\ text = IF h = 0 THEN NatToString(m) \o <<"m">>
                  ELSE NatToString(h) \o <<"h", " ">> \o NatToString(m) \o <<"m">>

\* the rendered times of the summary, each with the minute count it renders
RenderedTimes ==
    {<<resp.body.today.totalTime, resp.body.today.totalMinutes>>,
     <<resp.body.week.totalTime, resp.body.week.totalMinutes>>,
     <<resp.body.week.target, 1440>>}

\* C6 (as stated): today.totalTime, week.totalTime and week.target render their
\* minute counts as "{h}h {m}m" when h > 0 and as "{m}m" alone when h = 0.
C6_TimesElideZeroHours ==
    IsSummary => \A t \in RenderedTimes : IsHoursAndMinutesOrMinutes(t[1], t[2])

\* C6 (amended): today.totalTime, week.totalTime and week.target render their
\* non-negative minute counts as "{h}h {m}m", also when h = 0 ("0h 15m").
C6_TimesAlwaysShowHours ==
    IsSummary => \A t \in RenderedTimes : IsHoursAndMinutes(t[1], t[2])

\* 15 minutes today are "0h 15m", 120 minutes this week are "2h 0m"
C6_Witness ==
    /\ IsSummary
    /\ resp.body.today.totalMinutes = 15
    /\ resp.body.today.totalTime = <<"0", "h", " ", "1", "5", "m">>
    /\ resp.body.week.totalMinutes = 120
    /\ resp.body.week.totalTime = <<"2", "h", " ", "0", "m">>
    /\ resp.body.week.target = <<"2", "4", "h", " ", "0", "m">>

\* the three activity sequences of the summary, each with its total
SummedSequences ==
    {<<resp.locals.todayActivities, resp.body.today.totalMinutes>>,
     <<resp.locals.yesterdayActivities, resp.locals.yesterdayMinutes>>,
     <<resp.locals.weekActivities, resp.body.week.totalMinutes>>}

\* C9: each total of the summary is the sum of the durationMinutes of its
\* activities, 0 for no activities, and every order of the same activities
\* gives the same total.
C9_TotalIsOrderIndependentSum ==
    IsSummary =>
        \A s \in SummedSequences :
            /\ s[2] = SumOver(Range(s[1]))
            /\ s[1] = <<>> => s[2] = 0
            /\ \A p \in RowOrders(Range(s[1])) : TotalMinutes(p) = s[2]

\* a week of two activities of different durations, one of them today
C9_Witness ==
    /\ IsSummary
    /\ Len(resp.locals.weekActivities) = 2
    /\ resp.locals.weekActivities[1].durationMinutes
           # resp.locals.weekActivities[2].durationMinutes
    /\ resp.body.week.totalMinutes = 120
    /\ resp.body.today.totalMinutes = 105
    /\ resp.locals.yesterdayMinutes = 15

----------------------------------------------------------------------------
(* Properties of the formulas and helpers applied on their own *)

\* C7: comparedToYesterday is (current - previous) / previous * 100 rounded to
\* a nearest integer for current >= 0 and previous > 0, and is 0 whenever
\* previous = 0.
C7_PercentDelta ==
    Returned("comparedToYesterday") =>
        LET current  == call.args[1]
            previous == call.args[2]
            delta    == call.result[1]
        IN  /\ previous = 0 => delta = 0
            /\ previous > 0 => IsNearestPercent(delta, current - previous, previous)

\* 30 minutes today after none yesterday compare as 0
C7_Witness == Returned("comparedToYesterday") /\ call.args = <<30, 0>> /\ call.result = <<0>>

\* C8: weekProgress with target 1440 is min(round(weekMinutes / 1440 * 100), 100):
\* an integer in 0..100, no smaller for a larger week total, and 100 for
\* every week total of 1440 or more.
C8_WeekProgress ==
    Returned("weekProgress") =>
        LET x  == call.args[1]
            y  == call.args[2]
            px == call.result[1]
            py == call.result[2]
        IN  /\ px \in 0..100
            /\ \E r \in 0..(x + 1) :
                   IsNearestPercent(r, x, 1440) /\ px = IF r < 100 THEN r ELSE 100
            /\ x <= y => px <= py
            /\ x >= 1440 => px = 100

\* a week total past the target, where the rounded ratio is above 100, after
\* one of exactly 57.5 percent of the target
C8_Witness ==
    /\ Returned("weekProgress")
    /\ call.args = <<828, 1458>>
    /\ call.result = <<57, 100>>

\* C10: for valid HH:MM start and end, timeDifferenceInMinutes is end - start in
\* minutes when that is not negative and end - start + 1440 when end is
\* earlier on the clock; it lies in 0..1439 and is 0 when start = end.
C10_MinutesBetween ==
    Returned("timeDifferenceInMinutes") =>
        \A sh, eh \in ClockHours, sm, em \in ClockMinutes :
            call.args = <<FormatHHMM(sh, sm), FormatHHMM(eh, em)>> =>
                LET start == sh * 60 + sm
                    end   == eh * 60 + em
                    diff  == call.result[1]
                IN  /\ end >= start => diff = end - start
                    /\ end < start => diff = end - start + 1440
                    /\ diff \in 0..1439
                    /\ call.args[1] = call.args[2] => diff = 0

\* an overnight span, from 23:30 to 00:01
C10_Witness ==
    /\ Returned("timeDifferenceInMinutes")
    /\ call.args = <<FormatHHMM(23, 30), FormatHHMM(0, 1)>>
    /\ call.result = <<31>>

----------------------------------------------------------------------------
(* Properties of calculateEndTime *)

\* C11: for every valid HH:MM start and every integer minutes,
\* calculateEndTime(start, minutes) is the zero-padded HH:MM of
\* (start + minutes) modulo 1440, its hour in 00..23 and its minute in 00..59:
\* crossing midnight wraps around.
C11_EndTimeWrapsModuloDay ==
    Returned("calculateEndTime") =>
        \A h \in ClockHours, m \in ClockMinutes :
            call.args[1] = FormatHHMM(h, m) =>
                LET end == (h * 60 + m + call.args[2]) % 1440
                IN  call.result[1] = FormatHHMM(end \div 60, end % 60)

----------------------------------------------------------------------------
(* Properties of getDateRange *)

\* the day of now, read as the local calendar day or as the UTC one
ReferenceDays(instant) == {LocalDay(instant), UtcDay(instant)}

\* C12: with weeks starting on Sunday (day of week 0), "thisWeek" is the range
\* [now - dayOfWeek(now) days, now], and "lastWeek" is the full week before:
\* its end is now - dayOfWeek(now) - 1 day, a Saturday, and its start is six
\* days before the end, a Sunday.
C12_WeekRanges ==
    Returned("getDateRange") =>
        LET start == DayNumber(call.result[1].startDate)
            end   == DayNumber(call.result[1].endDate)
        IN  \E day \in ReferenceDays(call.at) :
                /\ call.args = <<"thisWeek">> =>
                       /\ start = day - DayOfWeek(day)
                       /\ DayOfWeek(start) = 0
                       /\ end = day
                /\ call.args = <<"lastWeek">> =>
                       /\ end = day - DayOfWeek(day) - 1
                       /\ DayOfWeek(end) = 6
                       /\ start = end - 6
                       /\ DayOfWeek(start) = 0

\* C13: "today" is [now, now], "yesterday" is [now - 1 day, now - 1 day],
\* "thisMonth" is [first day of now's month, now], and any other keyword is
\* [now - 30 days, now]; each bound is the YYYY-MM-DD date of its day.
C13_DayMonthAndTrailingRanges ==
    Returned("getDateRange") =>
        LET startDate == call.result[1].startDate
            endDate   == call.result[1].endDate
            start     == DayNumber(startDate)
            end       == DayNumber(endDate)
        IN  \E day \in ReferenceDays(call.at) :
                /\ startDate = ToISODate(start * HoursPerDay)
                /\ endDate = ToISODate(end * HoursPerDay)
                /\ call.args = <<"today">> => start = day /\ end = day
                /\ call.args = <<"yesterday">> => start = day - 1 /\ end = day - 1
                /\ call.args = <<"thisMonth">> =>
                       /\ SubSeq(startDate, 1, 8) = SubSeq(endDate, 1, 8)
                       /\ SubSeq(startDate, 9, 10) = <<"0", "1">>
                       /\ end = day
                /\ call.args \notin {<<"today">>, <<"yesterday">>, <<"thisWeek">>,
                                      <<"lastWeek">>, <<"thisMonth">>} =>
                       start = day - 30 /\ end = day

\* C14 (as stated): the range depends on what the caller passes only; two calls
\* with the same arguments return the same range, whatever the clock reads.
C14_RangeDependsOnArgumentsOnly ==
    \A c, d \in CallsUpTo(call) : c.args = d.args => c.result = d.result

\* C14 (amended): two calls with the same keyword made within the same local
\* calendar day, in the same zone, return the same range.
C14_RangeDependsOnKeywordAndLocalDay ==
    \A c, d \in CallsUpTo(call) :
        c.args = d.args /\ c.zone = d.zone /\ LocalDay(c.at) = LocalDay(d.at)
            => c.result = d.result

\* "thisWeek" called at noon and at 17:00 UTC of the same Wednesday returns one
\* range; called on the Saturday before, it had returned another
C14_Witness ==
    /\ Returned("getDateRange")
    /\ call.args = <<"thisWeek">>
    /\ call.at = Wednesday + 5
    /\ \E c, d \in call.earlier :
           /\ c.args = call.args /\ c.at = Wednesday /\ c.result = call.result
           /\ d.args = call.args /\ d.at < Wednesday /\ d.result # call.result

----------------------------------------------------------------------------
(* Properties of the lists of activities *)

IsList == resp.route = "GET /api/activities"

\* the minutes into the day of a time "HH:MM"
MinutesOfDay(time) == Number(SubSeq(time, 1, 2)) * 60 + Number(SubSeq(time, 4, 5))

\* no row occurs twice in the sequence
NoRowTwice(rows) == Len(rows) = Cardinality(Range(rows))

\* the rows come by startTime ascending
ByStartTime(rows) ==
    \A i, j \in 1..Len(rows) :
        i < j => MinutesOfDay(rows[i].startTime) <= MinutesOfDay(rows[j].startTime)

\* the rows come by date descending, and by startTime ascending within a date
ByNewestDateThenStartTime(rows) ==
    \A i, j \in 1..Len(rows) :
        i < j =>
            \/ DayNumber(rows[i].date) > DayNumber(rows[j].date)
            \/ /\ rows[i].date = rows[j].date
               /\ MinutesOfDay(rows[i].startTime) <= MinutesOfDay(rows[j].startTime)

\* C15: filtering by exact date D returns exactly the activities whose date
\* equals D, none missing and none extra, ordered by startTime ascending.
C15_ByExactDate ==
    IsList /\ DOMAIN resp.query = {"date"} /\ resp.query.date # <<>> =>
        /\ Range(resp.body) = {a \in activities : a.date = resp.query.date}
        /\ NoRowTwice(resp.body)
        /\ ByStartTime(resp.body)

\* two activities of the date asked for, the one entered second starting
\* first and listed first
C15_Witness ==
    /\ IsList
    /\ resp.query = [date |-> Today]
    /\ Len(resp.body) = 2
    /\ resp.body[1].id = 2 /\ resp.body[1].startTime = FormatHHMM(9, 0)
    /\ resp.body[2].id = 1 /\ resp.body[2].startTime = FormatHHMM(10, 30)

\* C16: filtering by the range [startDate, endDate] returns exactly the
\* activities with startDate <= date <= endDate, both bounds included, ordered
\* by date descending and by startTime ascending within a date; it returns
\* the empty sequence when startDate > endDate or nothing matches.
C16_ByInclusiveRange ==
    IsList /\ DOMAIN resp.query = {"startDate", "endDate"} =>
        LET first == DayNumber(resp.query.startDate)
            last  == DayNumber(resp.query.endDate)
        IN  /\ Range(resp.body) =
                   {a \in activities :
                       first <= DayNumber(a.date) /\ DayNumber(a.date) <= last}
            /\ NoRowTwice(resp.body)
            /\ ByNewestDateThenStartTime(resp.body)
            /\ first > last => resp.body = <<>>

\* an activity of the end date listed before one of the start date that was
\* entered before it
C16_Witness ==
    /\ IsList
    /\ resp.query = [startDate |-> Monday, endDate |-> Today]
    /\ Len(resp.body) = 2
    /\ resp.body[1].id = 2 /\ resp.body[1].date = Today
    /\ resp.body[2].id = 1 /\ resp.body[2].date = Monday

\* C17: filtering by tag returns exactly the activities whose projectTags
\* contain the tag name as an element, exactly and case-sensitively, in the
\* order of the full collection (date descending, startTime ascending).
C17_ByTag ==
    IsList /\ "projectTag" \in DOMAIN resp.query =>
        /\ Range(resp.body) =
               {a \in activities : resp.query.projectTag \in Range(a.projectTags)}
        /\ NoRowTwice(resp.body)
        /\ ByNewestDateThenStartTime(resp.body)

\* asked for "Research" with an activity tagged "research" and "Alpha" and an
\* older one tagged "Research" stored: the older one alone is listed
C17_Witness ==
    /\ IsList
    /\ resp.query = [projectTag |-> "Research"]
    /\ \E a \in activities : a.projectTags = <<"research", "Alpha">> /\ a.date = Today
    /\ Len(resp.body) = 1
    /\ resp.body[1].projectTags = <<"Research">>
    /\ resp.body[1].date = Monday

ReadRoutes == {"GET /api/activities", "GET /api/summary"}

\* C18: the lists and the summary never change what is stored: a step that
\* answers with a list or a summary leaves the activities and their fields as
\* they were, and answers with a sequence of stored rows, empty when nothing
\* matches, and never with a failure.
C18_ReadsLeaveActivitiesUnchanged ==
    [][resp'.route \in ReadRoutes =>
          /\ activities' = activities
          /\ resp'.status = 200
          /\ resp'.route = "GET /api/activities" =>
                 /\ Range(resp'.body) \subseteq activities
                 /\ activities = {} => resp'.body = <<>>]_vars

\* a list that is empty while activities are stored
C18_Witness ==
    /\ IsList
    /\ resp.status = 200
    /\ resp.body = <<>>
    /\ activities # {}

----------------------------------------------------------------------------
(* Properties of the summary over what is stored *)

\* the stored activities of a date
StoredOn(date) == {a \in activities : a.date = date}

\* the stored activities dated from the first to the last date
StoredWithin(first, last) ==
    {a \in activities :
        DayNumber(first) <= DayNumber(a.date) /\ DayNumber(a.date) <= DayNumber(last)}

\* C19: the summary is total: for every stored set of activities, the empty
\* one and those left by a deletion included, it answers without an error and
\* with well-defined values; for empty today, yesterday and week sets the
\* totals, comparedToYesterday and progress are 0 and the top project is
\* "None" with 0 minutes and 0 percent; after a deletion the totals are those
\* of the remaining activities.
C19_SummaryIsTotal ==
    IsSummary =>
        LET todays     == StoredOn(resp.locals.today)
            yesterdays == StoredOn(resp.locals.yesterday)
            weeks      == StoredWithin(resp.locals.startOfWeekStr,
                                       resp.locals.endOfWeekStr)
        IN  /\ resp.status = 200
            /\ resp.body.today.totalMinutes = SumOver(todays)
            /\ resp.locals.yesterdayMinutes = SumOver(yesterdays)
            /\ resp.body.week.totalMinutes = SumOver(weeks)
            /\ resp.body.today.comparedToYesterday \in Int
            /\ resp.body.week.progress \in Int
            /\ resp.locals.topProject.minutes \in Int
            /\ resp.body.topProject.percentage \in Int
            /\ todays = {} /\ yesterdays = {} /\ weeks = {} =>
                   /\ resp.body.today.totalMinutes = 0
                   /\ resp.body.today.comparedToYesterday = 0
                   /\ resp.body.week.totalMinutes = 0
                   /\ resp.body.week.progress = 0
                   /\ resp.body.topProject.name = "None"
                   /\ resp.locals.topProject.minutes = 0
                   /\ resp.body.topProject.percentage = 0

\* two activities were entered and one was deleted: the summary counts the 15
\* minutes of the one of today that remains
C19_Witness ==
    /\ IsSummary
    /\ activitySerial = 2
    /\ Cardinality(activities) = 1
    /\ resp.body.today.totalMinutes = 15
    /\ resp.body.week.totalMinutes = 15

----------------------------------------------------------------------------
(* Properties of the tag catalog *)

NoTwoTagsOfAName == \A t, u \in projectTags : t.name = u.name => t = u

TagNames(tags) == {t.name : t \in tags}

\* C20: tag creation is upsert by name: through any sequence of
\* createProjectTag, createActivity and updateActivity calls, creating a name
\* that exists leaves the catalog unchanged and returns the existing tag, so
\* the catalog never holds two tags of the same (case-sensitive) name.
C20_TagCreationIsUpsertByName ==
    [][/\ NoTwoTagsOfAName /\ NoTwoTagsOfAName'
       /\ projectTags \subseteq projectTags'
       /\ \A t \in projectTags' \ projectTags : t.name \notin TagNames(projectTags)
       /\ (/\ resp'.route = "POST /api/projects"
           /\ resp'.status = 201
           /\ resp'.body.name \in TagNames(projectTags))
              => projectTags' = projectTags /\ resp'.body \in projectTags]_vars

\* "Research" was created again and the default tag of that name came back,
\* while "research" and the tags of an activity were created beside it
C20_Witness ==
    /\ resp.route = "POST /api/projects"
    /\ resp.status = 201
    /\ resp.body = [id |-> 4, name |-> "Research"]
    /\ {"research", "Alpha"} \subseteq TagNames(projectTags)
    /\ Cardinality(projectTags) = 7
    /\ activities # {}

----------------------------------------------------------------------------
(* SpecRace: the server from the moment its storage module is loaded, with  *)
(* the seeding of the default tags running in the background and two        *)
(* requests whose database statements interleave with it and each other    *)

\* the requests in flight, and the background call of initializeDefaultTags
RequestIds == {"first", "second"}

Seeding == "initializeDefaultTags"

RaceBodies ==
    {[description |-> "write", date |-> Today, startTime |-> FormatHHMM(9, 0),
      durationMinutes |-> 30, projectTags |-> g] :
        g \in {<<"Alpha">>, <<"Website Redesign", "Alpha">>}}

RaceProjects == {[name |-> n] : n \in {"Alpha", "Client Meeting"}}

\* a storage call that has yet to create the tags of the given names
NewTask(op, route, names, body) ==
    [op |-> op, route |-> route, pc |-> "lookup", names |-> names,
     returned |-> <<>>, body |-> body]

\* the task once createProjectTag has returned tag for the first of its names:
\* the loop goes on with the next name, and after the last one createActivity
\* inserts its row while createProjectTag and initializeDefaultTags are done
AfterTag(task, tag) ==
    [task EXCEPT !.names = Tail(@),
                 !.returned = Append(@, tag),
                 !.pc = IF Tail(task.names) # <<>> THEN "lookup"
                        ELSE IF task.op = "createActivity" THEN "insertActivity"
                        ELSE "done"]

\* the response once a task has moved: a request that is done is answered
\* with 201 and one that threw with 500 by handleError; the seeding answers
\* nobody (its catch logs the error)
Answer(task) ==
    IF task.op = Seeding \/ task.pc \notin {"done", "failed"} THEN resp
    ELSE [route |-> task.route, status |-> IF task.pc = "done" THEN 201 ELSE 500]

\* app.post('/api/activities') up to the first statement of createActivity
BeginPostActivity(bodies) ==
    /\ \E id \in RequestIds \ DOMAIN tasks, body \in bodies :
           /\ insertActivitySchemaAccepts(body)
           /\ tasks' = (id :> NewTask("createActivity", "POST /api/activities",
                                      body.projectTags, body)) @@ tasks
    /\ UNCHANGED <<activities, activitySerial, projectTags, tagSerial, now, tz,
                   resp, call>>

\* app.post('/api/projects') up to the first statement of createProjectTag
BeginPostProject(bodies) ==
    /\ \E id \in RequestIds \ DOMAIN tasks, body \in bodies :
           /\ insertProjectTagSchemaAccepts(body)
           /\ tasks' = (id :> NewTask("createProjectTag", "POST /api/projects",
                                      <<body.name>>, body)) @@ tasks
    /\ UNCHANGED <<activities, activitySerial, projectTags, tagSerial, now, tz,
                   resp, call>>

\* createProjectTag, first statement: const existingTag = await
\* this.getProjectTagByName(tag.name); if (existingTag) return existingTag
LookupProjectTag ==
    /\ \E id \in DOMAIN tasks :
           LET task        == tasks[id]
               existingTag == getProjectTagByName(projectTags, Head(task.names))
           IN  /\ task.pc = "lookup"
               /\ \E moved \in IF existingTag = {}
                               THEN {[task EXCEPT !.pc = "insert"]}
                               ELSE {AfterTag(task, tag) : tag \in existingTag} :
                      /\ tasks' = [tasks EXCEPT ![id] = moved]
                      /\ resp' = Answer(moved)
    /\ UNCHANGED <<activities, activitySerial, projectTags, tagSerial, now, tz, call>>

\* createProjectTag, second statement: db.insert(projectTags).values(tag)
\* .returning(). project_tags.name is unique: when a tag of the name has been
\* inserted since the look-up the statement throws, after it has drawn its id
InsertProjectTag ==
    /\ \E id \in DOMAIN tasks :
           LET task   == tasks[id]
               name   == Head(task.names)
               newTag == [id |-> tagSerial + 1, name |-> name]
               thrown == getProjectTagByName(projectTags, name) # {}
               moved  == IF thrown THEN [task EXCEPT !.pc = "failed"]
                         ELSE AfterTag(task, newTag)
           IN  /\ task.pc = "insert"
               /\ tagSerial' = tagSerial + 1
               /\ projectTags' = IF thrown THEN projectTags
                                 ELSE projectTags \cup {newTag}
               /\ tasks' = [tasks EXCEPT ![id] = moved]
               /\ resp' = Answer(moved)
    /\ UNCHANGED <<activities, activitySerial, now, tz, call>>

\* createActivity, last statement: db.insert(activities).values(activity)
InsertActivity ==
    /\ \E id \in DOMAIN tasks :
           LET task  == tasks[id]
               moved == [task EXCEPT !.pc = "done"]
           IN  /\ task.pc = "insertActivity"
               /\ activities' =
                      activities \cup {NewActivityRow(task.body, activitySerial + 1)}
               /\ activitySerial' = activitySerial + 1
               /\ tasks' = [tasks EXCEPT ![id] = moved]
               /\ resp' = Answer(moved)
    /\ UNCHANGED <<projectTags, tagSerial, now, tz, call>>

\* the storage module has just been loaded: the tables are as the database
\* was created and initializeDefaultTags has been started
InitRace ==
    /\ activities = {}
    /\ activitySerial = 0
    /\ projectTags = {}
    /\ tagSerial = 0
    /\ now = Wednesday
    /\ tz = 0
    /\ resp = NoResponse
    /\ call = NoCall
    /\ tasks = (Seeding :> NewTask(Seeding, "none", defaultTags, <<>>))

NextRace ==
    \/ BeginPostActivity(RaceBodies)
    \/ BeginPostProject(RaceProjects)
    \/ LookupProjectTag
    \/ InsertProjectTag
    \/ InsertActivity

SpecRace == InitRace /\ [][NextRace]_vars

----------------------------------------------------------------------------
(* Tag creation under interleaving *)

Finished(task) == task.pc \in {"done", "failed"}

\* the requests that are in flight or were answered
Requests == DOMAIN tasks \ {Seeding}

\* the names a task was started to create
NamesOf(task) ==
    IF task.op = "createActivity" THEN Range(task.body.projectTags)
    ELSE IF task.op = "createProjectTag" THEN {task.body.name}
    ELSE Range(defaultTags)

\* the tags of the given name that createProjectTag returned to a task
ReturnedFor(task, name) ==
    {task.returned[i] : i \in {j \in 1..Len(task.returned) : task.returned[j].name = name}}

\* C21: two requests that create the same new tag name both complete
\* successfully and both get the same tag, and exactly one tag of that name
\* exists afterwards, however their look-ups and inserts interleave.
C21_SameNewTagFromTwoRequests ==
    \A t, u \in Requests : \A name \in NamesOf(tasks[t]) \cap NamesOf(tasks[u]) :
        (/\ t # u
         /\ name \notin Range(defaultTags)
         /\ Finished(tasks[t])
         /\ Finished(tasks[u]))
            => /\ tasks[t].pc = "done"
               /\ tasks[u].pc = "done"
               /\ ReturnedFor(tasks[t], name) = ReturnedFor(tasks[u], name)
               /\ Cardinality(getProjectTagByName(projectTags, name)) = 1

\* C25: seeding the default tags while requests create tags of the same
\* names completes without error and leaves exactly one catalog entry for
\* each of the five default names.
C25_SeedingCompletesWithEveryDefaultTag ==
    Finished(tasks[Seeding])
        => /\ tasks[Seeding].pc = "done"
           /\ \A name \in Range(defaultTags) :
                  Cardinality(getProjectTagByName(projectTags, name)) = 1

----------------------------------------------------------------------------
(* Tags of stored activities *)

\* C22: in every state reached by creating, updating and deleting
\* activities, every tag name in a stored activity's projectTags is the name
\* of a tag of the catalog.
C22_StoredTagsAreInCatalog ==
    \A a \in activities : Range(a.projectTags) \subseteq TagNames(projectTags)

\* of two activities one was deleted and the other was updated to carry
\* "Alpha", which the update created
C22_Witness ==
    /\ resp.route = "PUT /api/activities/:id"
    /\ resp.status = 200
    /\ activitySerial = 2
    /\ Cardinality(activities) = 1
    /\ \A a \in activities : a.projectTags = <<"Research", "Alpha">>
    /\ [id |-> 6, name |-> "Alpha"] \in projectTags

----------------------------------------------------------------------------
(* SpecEdit: the routes that create and update activities, with request    *)
(* bodies of the shapes the schema of the insert lets through              *)

ValidBody ==
    [description |-> "write", date |-> Today, startTime |-> FormatHHMM(9, 0),
     durationMinutes |-> 30, projectTags |-> <<"Research">>]

EditBodies ==
    {ValidBody,
     [ValidBody EXCEPT !.description = ""],
     [ValidBody EXCEPT !.date = <<>>],
     [ValidBody EXCEPT !.projectTags = <<>>],
     [ValidBody EXCEPT !.durationMinutes = -5],
     InvalidBody}

EditUpdates == {[durationMinutes |-> -5], [description |-> ""], <<>>}

NextEdit ==
    \/ PostActivity(EditBodies)
    \/ PutActivity(IdParams, EditUpdates)

SpecEdit == Init /\ [][NextEdit]_vars

----------------------------------------------------------------------------
(* SpecById: the routes that take the id of an activity, on a store that   *)
(* POST /api/activities fills                                              *)

ByIdBodies == {ValidBody, InvalidBody}

NextById ==
    \/ PostActivity(ByIdBodies)
    \/ GetActivity(IdParams)
    \/ PutActivity(IdParams, TagUpdates)
    \/ DeleteActivity(IdParams)

SpecById == Init /\ [][NextById]_vars

----------------------------------------------------------------------------
(* What the routes store and refuse *)

\* C23: create and update input is accepted only when it is valid against
\* the Activity shape, so after any sequence of POST /api/activities and
\* PUT /api/activities/:id every stored activity has a non-empty
\* description, a date, a non-empty projectTags list and a non-negative
\* integer durationMinutes.
C23_StoredActivitiesAreValid ==
    \A a \in activities :
        /\ a.description # ""
        /\ a.date # <<>>
        /\ a.projectTags # <<>>
        /\ a.durationMinutes \in Nat

ByIdRoutes ==
    {"GET /api/activities/:id", "PUT /api/activities/:id", "DELETE /api/activities/:id"}

\* C30: a GET, PUT or DELETE of /api/activities/:id whose id is the id of no
\* stored activity is answered with 404 and leaves the activities and the
\* tag catalog as they were: an update of a missing id creates none of the
\* tags it names.
C30_MissingIdFailsWithoutSideEffects ==
    [][(/\ resp'.route \in ByIdRoutes
        /\ ParseInt(resp'.params.id) # <<>>
        /\ getActivityById(ParseInt(resp'.params.id)[1]) = {})
           => /\ resp'.status = 404
              /\ activities' = activities
              /\ activitySerial' = activitySerial
              /\ projectTags' = projectTags
              /\ tagSerial' = tagSerial]_vars

\* with one activity stored, an update of the id that was never handed out
\* was answered with 404, and neither "Alpha" nor "Gamma" is in the catalog
C30_Witness ==
    /\ resp.route = "PUT /api/activities/:id"
    /\ resp.status = 404
    /\ resp.params.id = NatToString(MaxActivityId + 1)
    /\ Cardinality(activities) = 1
    /\ TagNames(projectTags) = Range(defaultTags)

----------------------------------------------------------------------------
(* SpecForm: the form that logs an activity (client/src/components/        *)
(* time-input-form.tsx), submitted once with whatever its fields hold      *)

\* the checks both members of activityInputSchema share, and startTime
FormFieldsGiven(values) ==
    /\ values.description # ""
    /\ values.date # <<>>
    /\ values.projectTags # <<>>
    /\ values.startTime # <<>>

StartStopKeys ==
    {"description", "date", "projectTags", "startTime", "endTime", "inputMethod"}

DurationKeys ==
    {"description", "date", "projectTags", "startTime", "durationMinutes", "inputMethod"}

\* whether the member schema that values.inputMethod selects accepts values
activityInputSchemaAccepts(values) ==
    /\ FormFieldsGiven(values)
    /\ IF values.inputMethod = "startStop" THEN values.endTime # <<>>
       ELSE values.durationMinutes >= 1

\* a resolver that hands the form's values on as they are
activityInputSchemaPassthrough(values) ==
    IF activityInputSchemaAccepts(values) THEN <<values>> ELSE <<>>

\* zodResolver(activityInputSchema): <<data>>, the parsed values with the keys
\* of the member schema only (z.object strips the others), or <<>> when a
\* check fails and the form is not submitted
activityInputSchemaParse(values) ==
    IF ~activityInputSchemaAccepts(values) THEN <<>>
    ELSE LET keys == IF values.inputMethod = "startStop" THEN StartStopKeys
                     ELSE DurationKeys
         IN  <<[k \in keys |-> values[k]]>>

\* createActivity.mutationFn up to apiRequest: the body of the POST
FinalData(data) ==
    LET activityData ==
            IF data.inputMethod = "startStop"
            THEN [k \in DOMAIN data \cup {"durationMinutes"} |->
                     IF k = "durationMinutes"
                     THEN timeDifferenceInMinutes(data.startTime, data.endTime)
                     ELSE data[k]]
            ELSE data
    IN  [k \in DOMAIN activityData \ {"inputMethod"} |-> activityData[k]]

FormTimes == {<<>>, FormatHHMM(9, 0), FormatHHMM(23, 30)}

FormEndTimes == {<<>>, FormatHHMM(9, 45), FormatHHMM(0, 15)}

FormDurations == {0, 1, 45}

FormValues ==
    {[description |-> d, date |-> dt, startTime |-> s, endTime |-> e,
      durationMinutes |-> m, projectTags |-> g, inputMethod |-> im] :
        d \in {"", "write"}, dt \in {<<>>, Today}, s \in FormTimes,
        e \in FormEndTimes, m \in FormDurations,
        g \in {<<>>, <<"Research">>}, im \in {"startStop", "duration"}}

PendingSubmits ==
    {[fn |-> "onSubmit", args |-> <<values>>, result |-> <<>>] : values \in FormValues}

\* form.handleSubmit(onSubmit): the resolver runs, and when it accepts the
\* values createActivity.mutate sends the POST
SubmitForm ==
    /\ Pending("onSubmit")
    /\ LET parsed == activityInputSchemaParse(call.args[1])
       IN  call' = [call EXCEPT
                       !.result = IF parsed = <<>> THEN <<[sent |-> FALSE]>>
                                  ELSE <<[sent |-> TRUE, body |-> FinalData(parsed[1])]>>]
    /\ UNCHANGED serverVars

InitForm == InitServer({Wednesday}, {0}) /\ call \in PendingSubmits

NextForm == SubmitForm

SpecForm == InitForm /\ [][NextForm]_vars

\* C24: an activity submitted in start/stop mode is sent with durationMinutes
\* the minutes from startTime to endTime, wrapping over midnight, and with
\* its endTime; one submitted in duration mode is sent with the
\* durationMinutes that were entered and without an endTime.
C24_SentDurationAndEndTime ==
    (Returned("onSubmit") /\ call.result[1].sent) =>
        LET values == call.args[1]
            body   == call.result[1].body
        IN  IF values.inputMethod = "startStop"
            THEN /\ body.durationMinutes =
                        (MinutesOfDay(values.endTime) - MinutesOfDay(values.startTime))
                            % (HoursPerDay * 60)
                 /\ "endTime" \in DOMAIN body
                 /\ body.endTime = values.endTime
            ELSE /\ body.durationMinutes = values.durationMinutes
                 /\ "endTime" \notin DOMAIN body

\* the duration tab was submitted with 45 minutes while the end-time field
\* of the other tab still held 09:45
C24_Witness ==
    /\ Returned("onSubmit")
    /\ call.args[1].inputMethod = "duration"
    /\ call.args[1].endTime = FormatHHMM(9, 45)
    /\ call.result[1].sent
    /\ call.result[1].body.durationMinutes = 45

----------------------------------------------------------------------------
(* SpecList: the list of activities (client/src/components/                 *)
(* activity-list.tsx) fetching what its two filters select                 *)

\* if (projectTag && projectTag !== "all") params.append("projectTag", projectTag)
ProjectParam(projectTag) ==
    IF projectTag # "" /\ projectTag # "all" THEN [projectTag |-> projectTag]
    ELSE <<>>

\* the date parameters the query function appends for the date filter; the
\* days are those of toISOString() on dates moved by setDate
DateParams(dateRange) ==
    LET dayOfWeek     == GetDay(now)
        endOfLastWeek == AddDays(now, -dayOfWeek - 1)
    IN  CASE dateRange = "today" -> [date |-> ToISODate(now)]
          [] dateRange = "yesterday" -> [date |-> ToISODate(AddDays(now, -1))]
          [] dateRange = "thisWeek" ->
                 [startDate |-> ToISODate(AddDays(now, -dayOfWeek)),
                  endDate |-> ToISODate(now)]
          [] dateRange = "lastWeek" ->
                 [startDate |-> ToISODate(AddDays(endOfLastWeek, -6)),
                  endDate |-> ToISODate(endOfLastWeek)]
          [] dateRange = "thisMonth" ->
                 [startDate |-> ToISODate(FirstOfMonth(now)),
                  endDate |-> ToISODate(now)]
          [] OTHER -> <<>>

\* the query string of the request
ActivityListParams(projectTag, dateRange) ==
    ProjectParam(projectTag) @@ DateParams(dateRange)

\* queryFn of the activities query: fetch("/api/activities?" + params),
\* answered by the server
FetchActivityList(projectFilters, dateFilters) ==
    \E projectFilter \in projectFilters, dateFilter \in dateFilters :
        GetActivities({ActivityListParams(projectFilter, dateFilter)})

ProjectFilters == {"", "all", "Research", "Development"}

EarlierMonth == ToISODate(Wednesday - 40 * HoursPerDay)

ListBodies ==
    {[description |-> "write", date |-> d, startTime |-> FormatHHMM(9, 0),
      durationMinutes |-> 30, projectTags |-> g] :
        d \in {Today, Yesterday, Monday, EarlierMonth},
        g \in {<<"Research">>, <<"Development">>}}
    \cup {InvalidBody}

NextList ==
    \/ PostActivity(ListBodies)
    \/ FetchActivityList(ProjectFilters, Filters)

SpecList == Init /\ [][NextList]_vars

\* C26: when the list has a project selected and a date filter selected,
\* the activities GET /api/activities answers with carry the selected tag
\* and have a date inside the selected date range.
C26_ListedByProjectAndDate ==
    (/\ IsList
     /\ "projectTag" \in DOMAIN resp.query
     /\ DOMAIN resp.query # {"projectTag"}) =>
        LET first == IF "date" \in DOMAIN resp.query THEN resp.query.date
                     ELSE resp.query.startDate
            last  == IF "date" \in DOMAIN resp.query THEN resp.query.date
                     ELSE resp.query.endDate
        IN  \A a \in Range(resp.body) :
                /\ resp.query.projectTag \in Range(a.projectTags)
                /\ TextLessEq(first, a.date)
                /\ TextLessEq(a.date, last)

----------------------------------------------------------------------------
(* The range of the top project's percentage *)

\* C27: the top project's percentage is an integer from 0 to 100 for every
\* week of activities with non-negative durations, those whose projectTags
\* repeat a tag included.
C27_TopPercentageWithinBounds ==
    (IsSummary /\ \A a \in Range(resp.locals.weekActivities) : a.durationMinutes >= 0)
        => resp.body.topProject.percentage \in 0..100

----------------------------------------------------------------------------
(* SpecRoundTrip: calculateEndTime applied to what timeDifferenceInMinutes  *)
(* returns, and timeDifferenceInMinutes applied to what calculateEndTime   *)
(* returns                                                                 *)

\* the durations shorter than a day
DayMinutes == 0..(HoursPerDay * 60 - 1)

PendingRoundTrips ==
    {[fn |-> "endTimeOfDifference", args |-> <<s, e>>, result |-> <<>>] :
        s \in ClockTimes, e \in ClockTimes}
    \cup {[fn |-> "differenceOfEndTime", args |-> <<s, m>>, result |-> <<>>] :
              s \in ClockTimes, m \in DayMinutes}

\* calculateEndTime(start, timeDifferenceInMinutes(start, end))
CallEndTimeOfDifference ==
    /\ Pending("endTimeOfDifference")
    /\ call' = [call EXCEPT
                   !.result = <<calculateEndTime(
                                    call.args[1],
                                    timeDifferenceInMinutes(call.args[1], call.args[2]))>>]
    /\ UNCHANGED serverVars

\* timeDifferenceInMinutes(start, calculateEndTime(start, m))
CallDifferenceOfEndTime ==
    /\ Pending("differenceOfEndTime")
    /\ call' = [call EXCEPT
                   !.result = <<timeDifferenceInMinutes(
                                    call.args[1],
                                    calculateEndTime(call.args[1], call.args[2]))>>]
    /\ UNCHANGED serverVars

InitRoundTrip == InitServer({Wednesday}, {0}) /\ call \in PendingRoundTrips

NextRoundTrip ==
    \/ CallEndTimeOfDifference
    \/ CallDifferenceOfEndTime

SpecRoundTrip == InitRoundTrip /\ [][NextRoundTrip]_vars

\* C28: calculateEndTime and timeDifferenceInMinutes are inverse to each
\* other: the end time of start plus the minutes from start to end is end,
\* and the minutes from start to the end time of start plus m are m, for m
\* from 0 to 1439.
C28_EndTimeAndDifferenceAreInverse ==
    /\ Returned("endTimeOfDifference") => call.result[1] = call.args[2]
    /\ Returned("differenceOfEndTime") => call.result[1] = call.args[2]

\* from 23:30 to 00:01 and back: the difference wrapped over midnight
C28_Witness ==
    /\ Returned("endTimeOfDifference")
    /\ call.args = <<FormatHHMM(23, 30), FormatHHMM(0, 1)>>
    /\ call.result = <<FormatHHMM(0, 1)>>

----------------------------------------------------------------------------
(* The ranges of getDateRange among themselves *)

\* C29: under every filter keyword and on every day, getDateRange returns a
\* startDate that is not after its endDate and an endDate that is not after
\* the day of the call; and the range of "lastWeek" ends on the day before
\* the one the range of "thisWeek" starts on, so the two never overlap.
C29_RangesAreOrderedAndWeeksAdjacent ==
    /\ \A c \in CallsUpTo(call) :
           /\ TextLessEq(c.result[1].startDate, c.result[1].endDate)
           /\ DayNumber(c.result[1].startDate) <= DayNumber(c.result[1].endDate)
           /\ \A day \in ReferenceDays(c.at) : DayNumber(c.result[1].endDate) <= day
    /\ \A c, d \in CallsUpTo(call) :
           (/\ c.args = <<"lastWeek">>
            /\ d.args = <<"thisWeek">>
            /\ LocalDay(c.at) = LocalDay(d.at))
               => DayNumber(c.result[1].endDate) + 1 = DayNumber(d.result[1].startDate)

\* two hours east of UTC, "lastWeek" and then "thisWeek" were asked for on
\* the same Wednesday: the one ends on 2024-02-23, the other starts on the 24th
C29_Witness ==
    /\ Returned("getDateRange")
    /\ tz = 2
    /\ call.at = Wednesday
    /\ call.args = <<"thisWeek">>
    /\ call.result[1].startDate = ToISODate(Wednesday - 4 * HoursPerDay)
    /\ \E c \in call.earlier :
           /\ c.args = <<"lastWeek">>
           /\ c.at = Wednesday
           /\ c.result[1].endDate = ToISODate(Wednesday - 5 * HoursPerDay)

====
